---- MODULE Spec2Model ----
(***************************************************************************)
(* Pharma Intelligence AI: the Streamlit script (app.py), the four-stage   *)
(* research crew (agents/master_agent.py) and the scraping tools           *)
(* (tools/web_scraping_tools.py, tools/database_scraping_tools.py).        *)
(*                                                                         *)
(* Text is modelled as a sequence of chunks: an f-string is the sequence   *)
(* of its literal pieces and interpolated values, so that "begins with"    *)
(* and "carries the value" are properties of the sequence.  A Python dict  *)
(* is a function whose DOMAIN is the dict's key set.                       *)
(***************************************************************************)
EXTENDS Integers, Sequences, FiniteSets, TLC

VARIABLES
    keys,       \* config: which of GOOGLE_API_KEY / OPENAI_API_KEY are set
    session,    \* st.session_state: llm_provider, skip_deep, research_history
    pc,         \* position of the script run: "idle" or "kickoff"
    run,        \* the script run in progress: query, llm, crew, next task
    events,     \* what the sequential executor did in the current kickoff
    ui,         \* widgets shown by the last script run
    effects,    \* calls made by the last script run
    llmLog,     \* results of direct initialize_llm() calls
    call,       \* the scraping-tool call that ran last
    history     \* every scraping-tool call so far, oldest first

vars == <<keys, session, pc, run, events, ui, effects, llmLog, call, history>>

-----------------------------------------------------------------------------
(* Bounds *)

MaxHistory == 2     \* research runs kept in one behaviour
MaxLLMCalls == 3    \* direct initialize_llm() calls in one behaviour
MaxCalls == 2       \* scraping-tool calls in one behaviour

-----------------------------------------------------------------------------
(* Python values and str() *)

NoneVal == [t |-> "NoneType", v |-> "None"]
StrVal(s) == [t |-> "str", v |-> s]

\* str(x): a str is itself, None prints as 'None'
str(x) == x.v

\* Python truthiness of a text value
Truthy(s) == s # ""

-----------------------------------------------------------------------------
(* agents/master_agent.py: run_comprehensive_research_crew *)

\* A variant whose Stage 3 context names Stage 2 whatever skip_deep is
TaskContextIgnoringSkip(stage, skip_deep) ==
    CASE stage = 1 -> << >>
      [] stage = 2 -> <<1>>
      [] stage = 3 -> <<1, 2>>
      [] stage = 4 -> IF skip_deep THEN <<1, 3>> ELSE <<1, 2, 3>>

\* context= of each Task, by stage number
TaskContext(stage, skip_deep) ==
    CASE stage = 1 -> << >>
      [] stage = 2 -> <<1>>
      [] stage = 3 -> IF skip_deep THEN <<1>> ELSE <<1, 2>>
      [] stage = 4 -> IF skip_deep THEN <<1, 3>> ELSE <<1, 2, 3>>

\* agent= of each Task
TaskAgent(stage) ==
    CASE stage = 1 -> "master_agent"
      [] stage = 2 -> "deep_research_agent"
      [] stage = 3 -> "market_agent"
      [] stage = 4 -> "master_agent"

MkTask(stage, skip_deep) ==
    [stage |-> stage, agent |-> TaskAgent(stage),
     context |-> TaskContext(stage, skip_deep)]

agents_list_with_deep(skip_deep) ==
    <<"master_agent", "clinical_agent", "drug_agent", "literature_agent",
      "market_agent", "deep_research_agent">>

agents_list(skip_deep) ==
    LET base == <<"master_agent", "clinical_agent", "drug_agent",
                  "literature_agent", "market_agent">>
    IN  IF ~skip_deep THEN Append(base, "deep_research_agent") ELSE base

tasks_list_always_four(skip_deep) ==
    <<MkTask(1, skip_deep), MkTask(2, skip_deep),
      MkTask(3, skip_deep), MkTask(4, skip_deep)>>

tasks_list_synthesis_first(skip_deep) ==
    LET l0 == <<MkTask(1, skip_deep)>>
        l1 == IF ~skip_deep THEN Append(l0, MkTask(2, skip_deep)) ELSE l0
    IN  Append(Append(l1, MkTask(4, skip_deep)), MkTask(3, skip_deep))

tasks_list(skip_deep) ==
    LET l0 == <<MkTask(1, skip_deep)>>
        l1 == IF ~skip_deep THEN Append(l0, MkTask(2, skip_deep)) ELSE l0
        l2 == Append(l1, MkTask(3, skip_deep))
    IN  Append(l2, MkTask(4, skip_deep))

\* Crew(agents=agents_list, tasks=tasks_list, process=Process.sequential)
Crew(skip_deep) ==
    [agents |-> agents_list(skip_deep),
     tasks |-> tasks_list(skip_deep),
     process |-> "sequential"]

\* What crew.kickoff() can hand back: an object with a raw attribute, with
\* an output attribute only, or with neither (str(result) is its repr).
KickoffResults ==
    { [attrs |-> {"raw", "output"}, raw |-> StrVal("report"),
       output |-> StrVal("legacy"), repr |-> "CrewOutput"],
      [attrs |-> {"raw"}, raw |-> NoneVal,
       output |-> NoneVal, repr |-> "CrewOutput"],
      [attrs |-> {"output"}, raw |-> NoneVal,
       output |-> StrVal("legacy"), repr |-> "CrewOutput"],
      [attrs |-> {}, raw |-> NoneVal,
       output |-> NoneVal, repr |-> "plain result"] }

\* Messages of the exceptions (subclasses of Exception) a task can raise
KickoffErrors == {"rate limit", ""}

NoResult == [attrs |-> {}, raw |-> NoneVal, output |-> NoneVal, repr |-> ""]

ExtractLegacyOutput(result) ==
    IF "output" \in result.attrs THEN <<str(result.output)>>
    ELSE IF "raw" \in result.attrs THEN <<str(result.raw)>>
    ELSE <<result.repr>>

\* the try branch: raw, else output, else str(result)
ExtractFinalOutput(result) ==
    IF "raw" \in result.attrs THEN <<str(result.raw)>>
    ELSE IF "output" \in result.attrs THEN <<str(result.output)>>
    ELSE <<result.repr>>

ErrorPrefix == "Error during research execution: "

KickoffErrorTextBare(e) ==
    <<"Research failed.", "\n\nPlease try a more specific query.">>

\* the except branch
KickoffErrorText(e) ==
    <<ErrorPrefix, e, "\n\nPlease try a more specific query.">>

-----------------------------------------------------------------------------
(* app.py: initialize_llm *)

NoProvider == "None"    \* st.session_state.get('llm_provider') is None
Providers == {"gemini", "openai"}
StStop == "st.stop"     \* st.error(...) followed by st.stop()

KeySets == [google : BOOLEAN, openai : BOOLEAN]

KeyOf(provider, k) ==
    CASE provider = "gemini" -> k.google
      [] provider = "openai" -> k.openai
      [] OTHER -> FALSE

ModelOf(provider) ==
    IF provider = "gemini" THEN "DEFAULT_GEMINI_MODEL" ELSE "DEFAULT_OPENAI_MODEL"

\* initialize_llm(): `stored` is st.session_state.get('llm_provider').
\* Returns the value left in the session and the model name, or StStop when
\* the function ends in st.error + st.stop().
initialize_llm(stored, k) ==
    LET provider ==
            IF stored = NoProvider
            THEN IF k.google THEN "gemini"
                 ELSE IF k.openai THEN "openai" ELSE NoProvider
            ELSE stored
    IN  [provider |-> provider,
         result |-> IF provider = "gemini" /\ k.google THEN "DEFAULT_GEMINI_MODEL"
                    ELSE IF provider = "openai" /\ k.openai THEN "DEFAULT_OPENAI_MODEL"
                    ELSE StStop]

-----------------------------------------------------------------------------
(* app.py: main *)

Selections == {"Gemini (free)", "OpenAI"}
Queries == {"", "LAM drugs"}
Clicks == {"none", "analyze", "clear"}
NumAgents == 6      \* create_*_agent calls in main

NoRun == [query |-> "", llm |-> "", crew |-> [agents |-> << >>, tasks |-> << >>,
          process |-> "sequential"], next |-> 0, active |-> 0]

NoEffects == [llm_init |-> FALSE, agents_created |-> 0, crew_built |-> FALSE]

\* with st.sidebar: provider selection and the fast-mode checkbox
Sidebar(s, k, selection, fast_mode) ==
    LET provider ==
            IF k.google /\ k.openai
            THEN (IF selection = "Gemini (free)" THEN "gemini" ELSE "openai")
            ELSE IF k.google THEN "gemini"
            ELSE IF k.openai THEN "openai"
            ELSE s.llm_provider
    IN  [s EXCEPT !.llm_provider = provider, !.skip_deep = fast_mode]

\* the guard of the research branch
StartsAlways(analyze_button, user_query) == analyze_button

StartsResearch(analyze_button, user_query) == analyze_button /\ Truthy(user_query)

\* if st.session_state.research_history: ... (the history section)
HistorySection(s) == IF Len(s.research_history) > 0 THEN {"history"} ELSE {}

\* One script run up to the call of crew.kickoff(), or to its end when the
\* run never gets there.
\* failAt = 0: every create_*_agent call returns; failAt = i: the i-th raises.
Main(click, user_query, selection, fast_mode, failAt) ==
    /\ pc = "idle"
    /\ LET s1 == Sidebar(session, keys, selection, fast_mode)
           analyze_button == click = "analyze"
       IN
       IF click = "clear" THEN
           \* st.rerun(): the script stops here
           /\ session' = s1
           /\ ui' = {}
           /\ effects' = NoEffects
           /\ UNCHANGED <<pc, run, events>>
       ELSE IF StartsResearch(analyze_button, user_query) THEN
           /\ Len(session.research_history) < MaxHistory
           /\ LET r == initialize_llm(s1.llm_provider, keys)
                  s2 == [s1 EXCEPT !.llm_provider = r.provider]
              IN
              IF r.result = StStop THEN
                  \* st.stop() ends the script run
                  /\ session' = s2
                  /\ ui' = {"initiated", "llm_error"}
                  /\ effects' = [NoEffects EXCEPT !.llm_init = TRUE]
                  /\ UNCHANGED <<pc, run, events>>
              ELSE IF failAt # 0 THEN
                  \* a create_*_agent call raises: main's except branch
                  /\ session' = s2
                  /\ ui' = {"error"} \cup HistorySection(s2)
                  /\ effects' = [NoEffects EXCEPT !.llm_init = TRUE,
                                                  !.agents_created = failAt - 1]
                  /\ UNCHANGED <<pc, run, events>>
              ELSE
                  /\ session' = s2
                  /\ ui' = {"initiated", "stage_indicator"}
                  /\ effects' = [llm_init |-> TRUE, agents_created |-> NumAgents,
                                 crew_built |-> TRUE]
                  /\ run' = [query |-> user_query, llm |-> r.result,
                             crew |-> Crew(s2.skip_deep), next |-> 1, active |-> 0]
                  /\ events' = << >>
                  /\ pc' = "kickoff"
       ELSE IF analyze_button THEN
           /\ session' = s1
           /\ ui' = {"warning"} \cup HistorySection(s1)
           /\ effects' = NoEffects
           /\ UNCHANGED <<pc, run, events>>
       ELSE
           /\ session' = s1
           /\ ui' = HistorySection(s1)
           /\ effects' = NoEffects
           /\ UNCHANGED <<pc, run, events>>
    /\ UNCHANGED <<keys, llmLog, call, history>>

\* one entry of `events`: a task started or finished, or kickoff returned
\* `result` or raised Exception(msg) while task `stage` ran (0: no task)
Event(ev, stage, msg, result) == [ev |-> ev, stage |-> stage, msg |-> msg, result |-> result]

\* Process.sequential: the executor starts the next task of crew.tasks
TaskStart ==
    /\ pc = "kickoff"
    /\ run.active = 0
    /\ run.next <= Len(run.crew.tasks)
    /\ events' = Append(events, Event("start", run.crew.tasks[run.next].stage, "", NoResult))
    /\ run' = [run EXCEPT !.active = run.crew.tasks[run.next].stage]
    /\ UNCHANGED <<keys, session, pc, ui, effects, llmLog, call, history>>

\* the running task finishes; the executor moves to the next one
TaskFinish ==
    /\ pc = "kickoff"
    /\ run.active # 0
    /\ events' = Append(events, Event("finish", run.active, "", NoResult))
    /\ run' = [run EXCEPT !.active = 0, !.next = run.next + 1]
    /\ UNCHANGED <<keys, session, pc, ui, effects, llmLog, call, history>>

\* main after run_comprehensive_research_crew returned `result`: the success
\* message, the report, the history entry, the download button, the history
\* section.
\* (The entry's timestamp and duration are clock readings; they are left out.)
MainTail(result) ==
    /\ session' = [session EXCEPT !.research_history =
                      Append(@, [query |-> run.query, result |-> result])]
    /\ ui' = {"success", "report", "download", "history"}
    /\ pc' = "idle"
    /\ run' = NoRun
    /\ UNCHANGED <<keys, effects, llmLog, call, history>>

\* crew.kickoff() returns after the last task
KickoffReturn(result) ==
    /\ pc = "kickoff"
    /\ run.active = 0
    /\ run.next > Len(run.crew.tasks)
    /\ events' = Append(events, Event("return", 0, "", result))
    /\ MainTail(ExtractFinalOutput(result))

\* A variant in which the exception leaves run_comprehensive_research_crew
\* and main's except branch handles it
KickoffRaiseEscapes(e) ==
    /\ pc = "kickoff"
    /\ run.next <= Len(run.crew.tasks)
    /\ events' = Append(events, Event("raise", run.active, e, NoResult))
    /\ ui' = {"error"} \cup HistorySection(session)
    /\ pc' = "idle"
    /\ run' = NoRun
    /\ UNCHANGED <<keys, session, effects, llmLog, call, history>>

\* crew.kickoff() raises Exception(e), before or during a task
KickoffRaise(e) ==
    /\ pc = "kickoff"
    /\ run.next <= Len(run.crew.tasks)
    /\ events' = Append(events, Event("raise", run.active, e, NoResult))
    /\ MainTail(KickoffErrorText(e))

-----------------------------------------------------------------------------
(* HTTP: what requests.get can do with one request *)

Absent == "<absent>"    \* a key or element the response does not have

\* requests.get raises (timeout, DNS, connection reset, ...)
NetExc(msg) == [kind |-> "exc", status |-> 0, msg |-> msg]
\* requests.get returns a response with this status
Http(status) == [kind |-> "http", status |-> status, msg |-> ""]

Answers == {NetExc("timed out"), Http(200), Http(404), Http(500)}

\* response.raise_for_status() raises for 4xx and 5xx
RaisesForStatus(resp) == resp.status >= 400

StatusErrorText(resp) == IF resp.status = 404 THEN "404 Client Error" ELSE "500 Server Error"

\* one entry of a helper's request log
Request(url, resp) == [url |-> url, failed |-> resp.kind = "exc" \/ resp.status >= 400]

\* what a helper hands back: the requests it issued and its return value
Helper(requests, ret) == [requests |-> requests, ret |-> ret]

\* what a tool call ends in
Return(text) == [kind |-> "return", value |-> text, exc |-> ""]
Raise(exc) == [kind |-> "raise", value |-> << >>, exc |-> exc]

\* Python values that can stand where a list of strings is expected
StrList(v) == [t |-> "list", v |-> v]
NullVal == [t |-> "null", v |-> << >>]
IntList == [t |-> "list_of_int", v |-> <<"1">>]
\* a str iterates as its characters
CharsOfLAM == [t |-> "str", v |-> <<"L", "A", "M">>]

\* sep.join(x) works on an iterable of str (a str is one), raises otherwise
JoinOk(x) == x.t \in {"list", "str"}

RECURSIVE JoinText(_, _)
JoinText(sep, v) ==
    IF Len(v) = 0 THEN << >>
    ELSE IF Len(v) = 1 THEN v
    ELSE <<v[1], sep>> \o JoinText(sep, Tail(v))

\* text[:n] of the page texts of the model
Cut(text, n) ==
    IF text = "long text"
    THEN CASE n = 500 -> "long text[:500]"
           [] n = 1000 -> "long text[:1000]"
           [] n = 2000 -> "long text[:2000]"
           [] n = 3000 -> "long text[:3000]"
    ELSE text

IntStr(i) ==
    CASE i = 0 -> "0" [] i = 1 -> "1" [] i = 2 -> "2" [] i = 3 -> "3"
      [] i = 4 -> "4" [] i = 5 -> "5" [] i = 6 -> "6" [] i = 7 -> "7"
      [] i = 8 -> "8" [] i = 9 -> "9"

-----------------------------------------------------------------------------
(* tools/database_scraping_tools.py *)

Diseases == {"LAM", "Cystic Fibrosis"}
GardDiseases == {"Cystic Fibrosis"}

\* An Orphanet page: the text of the element that holds the first string
\* containing "Prevalence", and the page's inheritance entry (Absent when
\* the page has none).
OrphanetPages ==
    [prevalence : {Absent, "Prevalence: 1-9 / 100 000"},
     inheritance : {Absent, "Autosomal recessive"}]

OrphanetWorlds == [get : Answers, page : OrphanetPages]

OrphanetUrl(disease_name) ==
    <<"https://www.orpha.net/consor/cgi-bin/Disease_Search.php?lng=EN&data_id=&Disease_Disease_Search_diseaseGroup=",
      disease_name>>

scrape_orphanet_retry(disease_name, w) ==
    LET search_url == OrphanetUrl(disease_name)
        again == IF w.get.kind = "exc" THEN <<Request(search_url, w.get)>> ELSE << >>
    IN  IF w.get.kind = "exc"
        THEN Helper(<<Request(search_url, w.get)>> \o again,
                    [name |-> disease_name, error |-> w.get.msg])
        ELSE IF RaisesForStatus(w.get)
        THEN Helper(<<Request(search_url, w.get)>>,
                    [name |-> disease_name, error |-> StatusErrorText(w.get)])
        ELSE Helper(<<Request(search_url, w.get)>>,
                    [name |-> disease_name,
                     prevalence |-> IF w.page.prevalence # Absent
                                    THEN w.page.prevalence ELSE "Unknown",
                     inheritance |-> "Unknown",
                     age_of_onset |-> "Unknown",
                     orphanet_url |-> search_url])

\* RareDiseaseDatabase.scrape_orphanet
scrape_orphanet(disease_name, w) ==
    LET search_url == OrphanetUrl(disease_name)
        req == <<Request(search_url, w.get)>>
    IN  IF w.get.kind = "exc"
        THEN Helper(req, [name |-> disease_name, error |-> w.get.msg])
        ELSE IF RaisesForStatus(w.get)
        THEN Helper(req, [name |-> disease_name, error |-> StatusErrorText(w.get)])
        ELSE Helper(req,
                    [name |-> disease_name,
                     prevalence |-> IF w.page.prevalence # Absent
                                    THEN w.page.prevalence ELSE "Unknown",
                     inheritance |-> "Unknown",
                     age_of_onset |-> "Unknown",
                     orphanet_url |-> search_url])

\* A variant that answers from the calls made so far
search_orphanet_rare_disease_cached(disease_name, w) ==
    LET h == scrape_orphanet(disease_name, w)
        data == h.ret
        seen == {k \in 1..Len(history) :
                    /\ history[k].tool = "search_orphanet_rare_disease"
                    /\ history[k].arg = disease_name}
    IN  IF seen # {}
        THEN [requests |-> << >>, outcome |-> history[CHOOSE k \in seen : TRUE].outcome]
        ELSE [requests |-> h.requests,
              outcome |->
                 IF "error" \in DOMAIN data
                 THEN Return(<<"Could not find ", disease_name, " in Orphanet: ", data.error>>)
                 ELSE Return(<<"Orphanet Data for ", disease_name, ":\n\n",
                               "Prevalence: ", data.prevalence, "\n",
                               "Inheritance: ", data.inheritance, "\n",
                               "Age of Onset: ", data.age_of_onset, "\n",
                               "Source: ">> \o data.orphanet_url \o <<"\n">>)]

\* @tool search_orphanet_rare_disease
search_orphanet_rare_disease(disease_name, w) ==
    LET h == scrape_orphanet(disease_name, w)
        data == h.ret
    IN  [requests |-> h.requests,
         outcome |->
            IF "error" \in DOMAIN data
            THEN Return(<<"Could not find ", disease_name, " in Orphanet: ", data.error>>)
            ELSE Return(<<"Orphanet Data for ", disease_name, ":\n\n",
                          "Prevalence: ", data.prevalence, "\n",
                          "Inheritance: ", data.inheritance, "\n",
                          "Age of Onset: ", data.age_of_onset, "\n",
                          "Source: ">> \o data.orphanet_url \o <<"\n">>)]

\* disease_name.replace(' ', '-').lower()
GardSlug(disease_name) ==
    CASE disease_name = "LAM" -> "lam"
      [] disease_name = "Cystic Fibrosis" -> "cystic-fibrosis"

GardPageUrl(disease_name) ==
    <<"https://rarediseases.info.nih.gov/diseases/", GardSlug(disease_name)>>

GardApiUrl(disease_name) ==
    <<"https://rarediseases.info.nih.gov/api/gard/search?q=", disease_name>>

\* The body of the search API's answer as api_response.json() sees it:
\* not JSON at all, an empty list, an object, a list of strings, or a list
\* whose first element is an object `first`.
GardFirst ==
    [name : {Absent, "Lymphangioleiomyomatosis"},
     gard_id : {Absent, "GARD:7"},
     synonyms : {[t |-> "absent", v |-> << >>], StrList(<< >>),
                 StrList(<<"LAM", "Lymphangiomyomatosis">>), NullVal, IntList,
                 CharsOfLAM}]

GardNoFirst == [name |-> Absent, gard_id |-> Absent,
                synonyms |-> [t |-> "absent", v |-> << >>]]

GardJson ==
    [shape : {"invalid", "empty_list", "object", "list_of_str"}, first : {GardNoFirst}]
    \cup [shape : {"list_of_dict"}, first : GardFirst]

GardWorlds == [get : Answers, api : Answers, json : GardJson, content : {"long text"}]

\* first_result.get(key, default)
GetOr(value, default) == IF value = Absent THEN default ELSE value

\* RareDiseaseDatabase.scrape_rare_diseases_info
scrape_rare_diseases_info(disease_name, w) ==
    LET search_url == GardPageUrl(disease_name)
        search_api == GardApiUrl(disease_name)
        r1 == <<Request(search_url, w.get)>>
        r2 == r1 \o <<Request(search_api, w.api)>>
        page == [name |-> disease_name, content |-> Cut(w.content, 1000),
                 url |-> search_url]
    IN  IF w.get.kind = "exc"
        THEN Helper(r1, [name |-> disease_name, error |-> w.get.msg])
        ELSE IF w.get.status = 404
        THEN IF w.api.kind = "exc"
             THEN Helper(r2, [name |-> disease_name, error |-> w.api.msg])
             ELSE IF w.api.status = 200
             THEN CASE w.json.shape = "invalid" ->
                         Helper(r2, [name |-> disease_name, error |-> "JSONDecodeError"])
                    [] w.json.shape = "empty_list" -> Helper(r2, page)
                    [] w.json.shape = "object" ->
                         Helper(r2, [name |-> disease_name, error |-> "KeyError: 0"])
                    [] w.json.shape = "list_of_str" ->
                         Helper(r2, [name |-> disease_name,
                                     error |-> "'str' object has no attribute 'get'"])
                    [] w.json.shape = "list_of_dict" ->
                         Helper(r2,
                                [name |-> GetOr(w.json.first.name, disease_name),
                                 gard_id |-> GetOr(w.json.first.gard_id, "N/A"),
                                 synonyms |-> IF w.json.first.synonyms.t = "absent"
                                              THEN StrList(<< >>)
                                              ELSE w.json.first.synonyms,
                                 url |-> <<"https://rarediseases.info.nih.gov/diseases/",
                                           GetOr(w.json.first.gard_id, "")>>])
             ELSE Helper(r2, page)
        ELSE Helper(r1, page)

\* @tool search_gard_rare_disease
search_gard_rare_disease(disease_name, w) ==
    LET h == scrape_rare_diseases_info(disease_name, w)
        data == h.ret
        head == <<"GARD Information for ", disease_name, ":\n\n">>
        tail == <<"URL: ">> \o data.url \o <<"\n">>
    IN  [requests |-> h.requests,
         outcome |->
            IF "error" \in DOMAIN data
            THEN Return(<<"Could not find ", disease_name, " in GARD">>)
            ELSE IF "gard_id" \in DOMAIN data
            THEN IF JoinOk(data.synonyms)
                 THEN Return(head \o <<"GARD ID: ", data.gard_id, "\n", "Synonyms: ">>
                             \o JoinText(", ", data.synonyms.v) \o <<"\n">> \o tail)
                 ELSE Raise("TypeError")
            ELSE Return(head \o tail)]

-----------------------------------------------------------------------------
(* tools/web_scraping_tools.py *)

MaxScholarResults == 8      \* max_results of search_google_scholar_papers
MaxPreprints == 5           \* max_results of search_biorxiv_preprints

NoneMark == "<None>"        \* a call returned None
ExcMark == "<raises>"       \* a call raised

\* xs[:n]
RECURSIVE Take(_, _)
Take(xs, n) == IF n = 0 \/ Len(xs) = 0 THEN << >> ELSE <<Head(xs)>> \o Take(Tail(xs), n - 1)

ScholarQueries == {"sirolimus LAM"}

\* One publication of the search: whether scholarly.fill raises for it, and
\* the author and abstract entries of the filled bib.
GoodPub == [fill |-> "ok", author |-> StrList(<<"Ann", "Bo", "Cy", "Di">>),
            abstract |-> "long text"]
Pubs ==
    { GoodPub,
      [GoodPub EXCEPT !.fill = ExcMark],
      [GoodPub EXCEPT !.author = NullVal],
      [GoodPub EXCEPT !.author = CharsOfLAM],
      [GoodPub EXCEPT !.abstract = NoneMark] }

PubLists ==
    {<< >>} \cup {<<a>> : a \in Pubs} \cup {<<a, b>> : a \in Pubs, b \in Pubs}
    \cup {[i \in 1..(MaxScholarResults + 1) |-> GoodPub]}

\* search: search_pubs raises or not; iter_exc: the result iterator raises
\* once the listed publications have been yielded
ScholarWorlds == [search : {"ok", ExcMark}, pubs : PubLists, iter_exc : BOOLEAN]

\* the loop body for publication pub: the dict appended, or nothing
PaperOf(pub) ==
    IF pub.fill = ExcMark \/ pub.abstract = NoneMark
    THEN << >>
    ELSE << [title |-> "Sirolimus in LAM", authors |-> pub.author, year |-> "2011",
             venue |-> "NEJM", citations |-> "1200",
             url |-> <<"https://doi.org/10.1056/x">>,
             abstract |-> Cut(pub.abstract, 500)] >>

RECURSIVE ScholarLoop(_, _, _)
ScholarLoop(pubs, i, max_results) ==
    IF Len(pubs) = 0 \/ i >= max_results
    THEN Helper(<< >>, << >>)
    ELSE LET rest == ScholarLoop(Tail(pubs), i + 1, max_results)
             req == [url |-> <<"scholarly.fill", IntStr(i)>>,
                     failed |-> Head(pubs).fill = ExcMark]
         IN  Helper(<<req>> \o rest.requests, PaperOf(Head(pubs)) \o rest.ret)

\* WebScraperAPI.scrape_google_scholar
scrape_google_scholar(query, max_results, w) ==
    LET search == [url |-> <<"scholarly.search_pubs", query>>,
                   failed |-> w.search = ExcMark]
        loop == ScholarLoop(w.pubs, 0, max_results)
    IN  IF w.search = ExcMark
        THEN Helper(<<search>>, << >>)
        \* the loop asks the iterator past the listed publications unless it
        \* has stopped at max_results
        ELSE IF w.iter_exc /\ Len(w.pubs) <= max_results
        THEN Helper(<<search>> \o loop.requests, << >>)
        ELSE Helper(<<search>> \o loop.requests, loop.ret)

\* paper['authors'][:3] joined with ', '
AuthorsOk(paper) == JoinOk(paper.authors)

PaperText(i, paper) ==
    <<IntStr(i), ". ", paper.title, "\n", "   Authors: ">>
    \o JoinText(", ", Take(paper.authors.v, 3))
    \o <<"\n", "   Year: ", paper.year, "\n", "   Venue: ", paper.venue, "\n",
         "   Citations: ", paper.citations, "\n",
         "   Abstract: ", paper.abstract, "...\n", "   URL: ">>
    \o paper.url \o <<"\n\n">>

RECURSIVE PapersText(_, _)
PapersText(papers, i) ==
    IF Len(papers) = 0 THEN << >>
    ELSE PaperText(i, Head(papers)) \o PapersText(Tail(papers), i + 1)

\* @tool search_google_scholar_papers
search_google_scholar_papers(query, w) ==
    LET h == scrape_google_scholar(query, MaxScholarResults, w)
        papers == h.ret
    IN  [requests |-> h.requests,
         outcome |->
            IF Len(papers) = 0
            THEN Return(<<"No papers found for query: ", query>>)
            ELSE IF \E k \in 1..Len(papers) : ~AuthorsOk(papers[k])
            THEN Raise("TypeError")
            ELSE Return(<<"Google Scholar Results for '", query, "':\n\n">>
                        \o PapersText(papers, 1))]

Drugs == {"Aspirin", "Sodium Oxybate"}

\* drug_name.lower().replace(' ', '_')
DrugSlug(drug_name) ==
    CASE drug_name = "Aspirin" -> "aspirin"
      [] drug_name = "Sodium Oxybate" -> "sodium_oxybate"

DrugBankUrl(drug_name) == <<"https://go.drugbank.com/drugs/", DrugSlug(drug_name)>>

\* the dd text after each dt of the page, Absent without that dt or dd
DrugBankWorlds ==
    [get : Answers,
     mechanism : {Absent, "long text", "COX inhibitor"},
     pharmacodynamics : {Absent, "long text"}]

IsNone == [is_none |-> TRUE]

\* WebScraperAPI.scrape_drugbank_info
scrape_drugbank_info(drug_name, w) ==
    LET url == DrugBankUrl(drug_name)
        req == <<Request(url, w.get)>>
    IN  IF w.get.kind = "exc" \/ RaisesForStatus(w.get)
        THEN Helper(req, IsNone)
        ELSE Helper(req,
                    [drug_name |-> drug_name,
                     drugbank_url |-> url,
                     mechanism |-> IF w.mechanism = Absent THEN ""
                                   ELSE Cut(w.mechanism, 500),
                     pharmacodynamics |-> IF w.pharmacodynamics = Absent THEN ""
                                          ELSE Cut(w.pharmacodynamics, 500),
                     indication |-> "",
                     pharmacokinetics |-> ""])

\* @tool get_drug_mechanism_details
get_drug_mechanism_details(drug_name, w) ==
    LET h == scrape_drugbank_info(drug_name, w)
        data == h.ret
    IN  [requests |-> h.requests,
         outcome |->
            IF data = IsNone
            THEN Return(<<"Could not retrieve DrugBank data for: ", drug_name>>)
            ELSE Return(<<"DrugBank Information for ", drug_name, ":\n\n",
                          "Mechanism of Action:\n", data.mechanism, "\n\n",
                          "Pharmacodynamics:\n", data.pharmacodynamics, "\n\n",
                          "Source: ">> \o data.drugbank_url \o <<"\n">>)]

PreprintQueries == {"LAM mTOR"}

\* quote_plus(query)
QuotePlus(query) ==
    CASE query = "LAM mTOR" -> "LAM+mTOR"
      [] query = "Pfizer pharmaceutical pipeline" -> "Pfizer+pharmaceutical+pipeline"

\* One div.highwire-article-citation: its spans (Absent when missing) and
\* its first <a>: with an href, without one, or no <a> at all.
FullArticle == [title |-> "mTOR in LAM", authors_text |-> "Ann, Bo",
                date |-> "2024-01-01", doi |-> "10.1101/x", a |-> "/content/x"]
Articles ==
    { FullArticle,
      [title |-> Absent, authors_text |-> Absent, date |-> Absent, doi |-> Absent,
       a |-> Absent],
      [FullArticle EXCEPT !.a = "<a without href>"] }

ArticleLists ==
    {<< >>} \cup {<<a>> : a \in Articles} \cup {<<a, b>> : a \in Articles, b \in Articles}
    \cup {[i \in 1..(MaxPreprints + 1) |-> FullArticle]}

BioRxivWorlds == [get : Answers, articles : ArticleLists]

OrNA(x) == IF x = Absent THEN "N/A" ELSE x

PreprintOf(article) ==
    [title |-> OrNA(article.title), authors_text |-> OrNA(article.authors_text),
     date |-> OrNA(article.date), doi |-> OrNA(article.doi),
     url |-> IF article.a = Absent THEN <<"N/A">>
             ELSE <<"https://www.biorxiv.org", article.a>>]

\* WebScraperAPI.scrape_bioRxiv_preprints
scrape_bioRxiv_preprints(query, max_results, w) ==
    LET search_url == <<"https://www.biorxiv.org/search/", QuotePlus(query)>>
        req == <<Request(search_url, w.get)>>
        articles == Take(w.articles, max_results)
    IN  IF w.get.kind = "exc" \/ RaisesForStatus(w.get)
        THEN Helper(req, << >>)
        ELSE IF \E k \in 1..Len(articles) : articles[k].a = "<a without href>"
        THEN Helper(req, << >>)      \* KeyError: 'href'
        ELSE Helper(req, [k \in 1..Len(articles) |-> PreprintOf(articles[k])])

RECURSIVE PreprintsText(_, _)
PreprintsText(papers, i) ==
    IF Len(papers) = 0 THEN << >>
    ELSE <<IntStr(i), ". ", Head(papers).title, "\n",
           "   Authors: ", Head(papers).authors_text, "\n",
           "   Date: ", Head(papers).date, "\n",
           "   DOI: ", Head(papers).doi, "\n", "   URL: ">>
         \o Head(papers).url \o <<"\n\n">> \o PreprintsText(Tail(papers), i + 1)

\* @tool search_biorxiv_preprints
search_biorxiv_preprints(query, w) ==
    LET h == scrape_bioRxiv_preprints(query, MaxPreprints, w)
        preprints == h.ret
    IN  [requests |-> h.requests,
         outcome |->
            IF Len(preprints) = 0
            THEN Return(<<"No preprints found for: ", query>>)
            ELSE Return(<<"Latest bioRxiv Preprints for '", query, "':\n\n">>
                        \o PreprintsText(preprints, 1))]

Companies == {"Pfizer"}

\* f"{company_name} pharmaceutical pipeline"
PipelineQuery(company_name) ==
    CASE company_name = "Pfizer" -> "Pfizer pharmaceutical pipeline"

\* href: the href of the first a.result__url of the result page (Absent: no
\* such anchor; "": an anchor without href); get2: the answer to the request
\* for that page; extract: what trafilatura.extract makes of it.
PipelineWorlds ==
    [get : Answers,
     href : {Absent, "", "https://www.pfizer.com/science/drug-product-pipeline"},
     get2 : Answers,
     extract : {ExcMark, NoneMark, "long text", "90 candidates"}]

\* WebScraperAPI.scrape_company_pipeline
scrape_company_pipeline(company_name, w) ==
    LET search_url == <<"https://html.duckduckgo.com/html/?q=",
                        QuotePlus(PipelineQuery(company_name))>>
        r1 == <<Request(search_url, w.get)>>
        r2 == r1 \o <<Request(<<w.href>>, w.get2)>>
    IN  IF w.get.kind = "exc"
        THEN Helper(r1, [company |-> company_name, error |-> w.get.msg])
        ELSE IF w.href # Absent /\ Truthy(w.href)
        THEN IF w.get2.kind = "exc"
             THEN Helper(r2, [company |-> company_name, error |-> w.get2.msg])
             ELSE IF w.extract = ExcMark
             THEN Helper(r2, [company |-> company_name, error |-> "extract failed"])
             ELSE Helper(r2, [company |-> company_name,
                              url |-> <<w.href>>,
                              content |-> IF w.extract = NoneMark
                                          THEN "No content extracted"
                                          ELSE Cut(w.extract, 2000)])
        ELSE Helper(r1, [company |-> company_name, error |-> "No pipeline page found"])

\* @tool scrape_company_pipeline_info
scrape_company_pipeline_info(company_name, w) ==
    LET h == scrape_company_pipeline(company_name, w)
        data == h.ret
    IN  [requests |-> h.requests,
         outcome |->
            IF "error" \in DOMAIN data
            THEN Return(<<"Error retrieving pipeline for ", company_name, ": ", data.error>>)
            ELSE Return(<<"Pipeline Information for ", company_name, ":\n\n",
                          "Source: ">> \o data.url \o <<"\n\n", "Content:\n",
                          data.content, "\n">>)]

PageUrls == {"https://example.org/press-release"}

\* fetch: trafilatura.fetch_url returns the page, returns None or raises;
\* extract: trafilatura.extract returns text, "" or None, or raises
CleanTextWorlds ==
    [fetch : {"<html>", NoneMark, ExcMark},
     extract : {"long text", "short text", "", NoneMark, ExcMark}]

\* WebScraperAPI.scrape_clean_text
scrape_clean_text(url, w) ==
    LET req == <<[url |-> <<url>>, failed |-> w.fetch # "<html>"]>>
    IN  IF w.fetch = ExcMark THEN Helper(req, <<"Error: ", "fetch failed">>)
        ELSE IF w.extract = ExcMark THEN Helper(req, <<"Error: ", "extract failed">>)
        ELSE IF w.extract = NoneMark \/ ~Truthy(w.extract)
        THEN Helper(req, <<"Could not extract content">>)
        ELSE Helper(req, <<w.extract>>)

\* content[:3000] of the helper's text
CutText(text, n) == IF Len(text) = 1 THEN <<Cut(text[1], n)>> ELSE text

\* @tool extract_webpage_content
extract_webpage_content(url, w) ==
    LET h == scrape_clean_text(url, w)
    IN  [requests |-> h.requests,
         outcome |-> Return(<<"Content from ", url, ":\n\n">> \o CutText(h.ret, 3000))]

-----------------------------------------------------------------------------
(* Tool calls *)

Tools ==
    {"search_orphanet_rare_disease", "search_gard_rare_disease",
     "search_google_scholar_papers", "get_drug_mechanism_details",
     "search_biorxiv_preprints", "scrape_company_pipeline_info",
     "extract_webpage_content"}

NoCall == [tool |-> "none", arg |-> "", requests |-> << >>, outcome |-> Return(<< >>)]

\* the agent calls `tool` with `arg`; the network behaves as `w`
Apply(tool, arg, w) ==
    CASE tool = "search_orphanet_rare_disease" -> search_orphanet_rare_disease(arg, w)
      [] tool = "search_gard_rare_disease" -> search_gard_rare_disease(arg, w)
      [] tool = "search_google_scholar_papers" -> search_google_scholar_papers(arg, w)
      [] tool = "get_drug_mechanism_details" -> get_drug_mechanism_details(arg, w)
      [] tool = "search_biorxiv_preprints" -> search_biorxiv_preprints(arg, w)
      [] tool = "scrape_company_pipeline_info" -> scrape_company_pipeline_info(arg, w)
      [] tool = "extract_webpage_content" -> extract_webpage_content(arg, w)

Invoke(tool, arg, w) ==
    LET r == Apply(tool, arg, w)
    IN  /\ call' = [tool |-> tool, arg |-> arg, world |-> w,
                    requests |-> r.requests, outcome |-> r.outcome]
        /\ UNCHANGED <<keys, session, pc, run, events, ui, effects, llmLog>>

SearchOrphanet ==
    \E d \in Diseases, w \in OrphanetWorlds :
        Invoke("search_orphanet_rare_disease", d, w) /\ UNCHANGED history

SearchGard ==
    \E d \in GardDiseases, w \in GardWorlds :
        Invoke("search_gard_rare_disease", d, w) /\ UNCHANGED history

SearchScholar ==
    \E q \in ScholarQueries, w \in ScholarWorlds :
        Invoke("search_google_scholar_papers", q, w) /\ UNCHANGED history

GetDrugMechanism ==
    \E d \in Drugs, w \in DrugBankWorlds :
        Invoke("get_drug_mechanism_details", d, w) /\ UNCHANGED history

SearchBioRxiv ==
    \E q \in PreprintQueries, w \in BioRxivWorlds :
        Invoke("search_biorxiv_preprints", q, w) /\ UNCHANGED history

ScrapePipeline ==
    \E c \in Companies, w \in PipelineWorlds :
        Invoke("scrape_company_pipeline_info", c, w) /\ UNCHANGED history

ExtractWebpage ==
    \E u \in PageUrls, w \in CleanTextWorlds :
        Invoke("extract_webpage_content", u, w) /\ UNCHANGED history

\* Sequences of calls: the arguments and network behaviours used when every
\* call of a behaviour is kept in `history`.
SeqArgs(tool) ==
    CASE tool = "search_orphanet_rare_disease" -> Diseases
      [] tool = "search_gard_rare_disease" -> GardDiseases
      [] tool = "search_google_scholar_papers" -> ScholarQueries
      [] tool = "get_drug_mechanism_details" -> {"Aspirin"}
      [] tool = "search_biorxiv_preprints" -> PreprintQueries
      [] tool = "scrape_company_pipeline_info" -> {"Pfizer"}
      [] tool = "extract_webpage_content" -> PageUrls

SeqWorlds(tool) ==
    CASE tool = "search_orphanet_rare_disease" ->
            {w \in OrphanetWorlds : w.get.status \in {0, 200} /\ w.page.inheritance = Absent}
      [] tool = "search_gard_rare_disease" ->
            {w \in GardWorlds : /\ w.get = Http(404) /\ w.api \in {Http(200), Http(500)}
                                /\ w.content = "long text"
                                /\ w.json.shape = "list_of_dict"
                                /\ w.json.first.name = Absent
                                /\ w.json.first.gard_id # Absent
                                /\ w.json.first.synonyms.t = "absent"}
      [] tool = "search_google_scholar_papers" ->
            {w \in ScholarWorlds : ~w.iter_exc /\ w.pubs \in {<< >>, <<GoodPub>>}
                                   /\ w.search = "ok"}
      [] tool = "get_drug_mechanism_details" ->
            {w \in DrugBankWorlds : /\ w.get \in {Http(200), Http(404)}
                                    /\ w.mechanism = "long text"
                                    /\ w.pharmacodynamics = Absent}
      [] tool = "search_biorxiv_preprints" ->
            {w \in BioRxivWorlds : w.get = Http(200) /\ w.articles \in {<< >>, <<FullArticle>>}}
      [] tool = "scrape_company_pipeline_info" ->
            {w \in PipelineWorlds : /\ w.get = Http(200) /\ w.get2 = Http(200)
                                    /\ w.href \notin {""}
                                    /\ w.extract = "90 candidates"}
      [] tool = "extract_webpage_content" ->
            {w \in CleanTextWorlds : w.fetch \in {"<html>", NoneMark}
                                     /\ w.extract = "short text"}

LoggedCall ==
    \E tool \in Tools :
        \E arg \in SeqArgs(tool), w \in SeqWorlds(tool) :
            /\ Len(history) < MaxCalls
            /\ Invoke(tool, arg, w)
            /\ history' = Append(history, call')

-----------------------------------------------------------------------------
(* Direct calls of initialize_llm *)

\* initialize_llm() on the session as it stands
InitializeLLM ==
    /\ Len(llmLog) < MaxLLMCalls
    /\ LET r == initialize_llm(session.llm_provider, keys)
       IN  /\ session' = [session EXCEPT !.llm_provider = r.provider]
           /\ llmLog' = Append(llmLog, [stored |-> session.llm_provider,
                                        result |-> r.result])
    /\ UNCHANGED <<keys, pc, run, events, ui, effects, call, history>>

\* the sidebar of a script run that presses no button
SidebarOnly ==
    /\ \E sel \in Selections, fast \in BOOLEAN :
           session' = Sidebar(session, keys, sel, fast)
    /\ UNCHANGED <<keys, pc, run, events, ui, effects, llmLog, call, history>>

-----------------------------------------------------------------------------
(* Specifications *)

InitApp ==
    /\ keys \in KeySets
    /\ session = [llm_provider |-> NoProvider, skip_deep |-> TRUE,
                  research_history |-> << >>]
    /\ pc = "idle"
    /\ run = NoRun
    /\ events = << >>
    /\ ui = {}
    /\ effects = NoEffects

Init ==
    /\ InitApp
    /\ llmLog = << >>
    /\ call = NoCall
    /\ history = << >>

MainStep ==
    \E click \in Clicks, q \in Queries, sel \in Selections, fast \in BOOLEAN,
       failAt \in 0..NumAgents :
        Main(click, q, sel, fast, failAt)

KickoffReturnStep ==
    \E result \in KickoffResults : KickoffReturn(result)

KickoffRaiseStep ==
    \E e \in KickoffErrors : KickoffRaise(e)

Next ==
    \/ MainStep
    \/ TaskStart
    \/ TaskFinish
    \/ KickoffReturnStep
    \/ KickoffRaiseStep

\* the Streamlit application: script runs and crew execution
Spec == Init /\ [][Next]_vars

InitTools ==
    /\ keys = [google |-> TRUE, openai |-> FALSE]
    /\ session = [llm_provider |-> NoProvider, skip_deep |-> TRUE,
                  research_history |-> << >>]
    /\ pc = "idle"
    /\ run = NoRun
    /\ events = << >>
    /\ ui = {}
    /\ effects = NoEffects
    /\ llmLog = << >>
    /\ call = NoCall
    /\ history = << >>

NextTools ==
    \/ SearchOrphanet
    \/ SearchGard
    \/ SearchScholar
    \/ GetDrugMechanism
    \/ SearchBioRxiv
    \/ ScrapePipeline
    \/ ExtractWebpage

\* single tool calls, over every behaviour of the network
SpecTools == InitTools /\ [][NextTools]_vars

\* sequences of tool calls
SpecToolSeq == InitTools /\ [][LoggedCall]_vars

InitLLM ==
    /\ keys \in KeySets
    /\ session \in [llm_provider : {NoProvider} \cup Providers, skip_deep : {TRUE},
                    research_history : {<< >>}]
    /\ pc = "idle"
    /\ run = NoRun
    /\ events = << >>
    /\ ui = {}
    /\ effects = NoEffects
    /\ llmLog = << >>
    /\ call = NoCall
    /\ history = << >>

NextLLM ==
    \/ InitializeLLM
    \/ SidebarOnly

\* initialize_llm as a function of the session and the configured keys
SpecLLM == InitLLM /\ [][NextLLM]_vars

-----------------------------------------------------------------------------
(* Properties of the crew and of main, checked under Spec *)

StagesOf(tasks) == [k \in 1..Len(tasks) |-> tasks[k].stage]

Starts == {k \in 1..Len(events) : events[k].ev = "start"}
Finishes == {k \in 1..Len(events) : events[k].ev = "finish"}

\* C1 as stated: whatever skip_deep is, the crew handed to the executor holds
\* exactly the four tasks Stage 1, Stage 2, Stage 3, Stage 4 in that order.
C1_AlwaysFourTasks ==
    pc = "kickoff" => StagesOf(run.crew.tasks) = <<1, 2, 3, 4>>

\* C1 amended: the crew handed to the executor holds Stage 1, 2, 3, 4 in that
\* order when skip_deep is false, and exactly the three tasks Stage 1, 3, 4
\* in that order when skip_deep is true.
C1_TasksBySkipDeep ==
    pc = "kickoff" =>
        StagesOf(run.crew.tasks) =
            IF session.skip_deep THEN <<1, 3, 4>> ELSE <<1, 2, 3, 4>>

C1_Witness ==
    /\ pc = "kickoff"
    /\ session.skip_deep
    /\ Len(run.crew.tasks) = 3
    /\ events # << >>

\* C2: the stages run one at a time in ascending order: a task starts only
\* when no task is running and every lower-numbered stage of the crew's task
\* list has finished, and nothing starts after Stage 4, which is the task
\* that finished last whenever kickoff returns.
C2_SequentialAscending ==
    /\ \A k \in Starts :
          /\ k > 1 => events[k - 1].ev = "finish"
          /\ \A j \in Starts : j < k => events[j].stage < events[k].stage
          /\ \A j \in Starts : j > k => events[k].stage # 4
          /\ pc = "kickoff" =>
                \A t \in 1..Len(run.crew.tasks) :
                    run.crew.tasks[t].stage < events[k].stage =>
                        \E j \in Finishes :
                            j < k /\ events[j].stage = run.crew.tasks[t].stage
    /\ \A k \in Finishes : k > 1 /\ events[k - 1] = [events[k] EXCEPT !.ev = "start"]
    /\ \A k \in 1..Len(events) :
          events[k].ev = "return" =>
              k > 1 /\ events[k - 1].ev = "finish" /\ events[k - 1].stage = 4

C2_Witness ==
    /\ pc = "idle"
    /\ Len(events) = 9
    /\ events[9].ev = "return"

\* C3: with skip_deep true the Stage 2 task is not in the crew's task list,
\* the deep research agent is not in its agent list, no task of the crew
\* lists Stage 2 in its context, and Stage 2 is never started.
C3_SkipDeepSkipsStage2 ==
    (pc = "kickoff" /\ session.skip_deep) =>
        /\ \A t \in 1..Len(run.crew.tasks) :
              /\ run.crew.tasks[t].stage # 2
              /\ \A c \in 1..Len(run.crew.tasks[t].context) :
                    run.crew.tasks[t].context[c] # 2
        /\ \A a \in 1..Len(run.crew.agents) : run.crew.agents[a] # "deep_research_agent"
        /\ \A k \in 1..Len(events) : events[k].stage # 2

C3_Witness ==
    /\ pc = "kickoff"
    /\ session.skip_deep
    /\ \E k \in Finishes : events[k].stage = 3

LastEvent == events[Len(events)]
LastEntry == session.research_history[Len(session.research_history)]

\* C4: when crew.kickoff raises, run_comprehensive_research_crew returns a
\* text that begins 'Error during research execution: ' and carries the
\* exception's text; when it returns, the function returns the final output
\* (raw, else output, else the result itself) as a string.  Either way main
\* receives a value: the run ends with a history entry holding it.
C4_KickoffNeverEscapes ==
    (pc = "idle" /\ events # << >>) =>
        /\ LastEvent.ev \in {"raise", "return"}
        /\ Len(session.research_history) > 0
        /\ LastEvent.ev = "raise" =>
              /\ Len(LastEntry.result) >= 2
              /\ LastEntry.result[1] = "Error during research execution: "
              /\ LastEntry.result[2] = LastEvent.msg
        /\ LastEvent.ev = "return" =>
              LastEntry.result =
                  << IF "raw" \in LastEvent.result.attrs THEN LastEvent.result.raw.v
                     ELSE IF "output" \in LastEvent.result.attrs
                          THEN LastEvent.result.output.v
                          ELSE LastEvent.result.repr >>

C4_Witness ==
    /\ pc = "idle"
    /\ events # << >>
    /\ LastEvent.ev = "raise"
    /\ LastEvent.stage = 3
    /\ LastEvent.msg = "rate limit"

\* C10: a research run starts only from a press of the start button with a
\* non-empty query; a press with an empty query shows the warning,
\* initializes no LLM, creates no agent, runs no crew and leaves
\* research_history unchanged.
C10_EmptyQueryDoesNothing ==
    [][ /\ (\E sel \in Selections, fast \in BOOLEAN, failAt \in 0..NumAgents :
                Main("analyze", "", sel, fast, failAt))
            => /\ "warning" \in ui'
               /\ effects' = NoEffects
               /\ pc' = "idle"
               /\ session'.research_history = session.research_history
        /\ (pc = "idle" /\ pc' = "kickoff")
            => \E q \in Queries \ {""}, sel \in Selections, fast \in BOOLEAN :
                   Main("analyze", q, sel, fast, 0)
      ]_vars

C10_Witness ==
    /\ "warning" \in ui
    /\ effects = NoEffects
    /\ pc = "idle"
    /\ Len(session.research_history) = 1

\* C11: every task named in the context of a task of the crew is itself in
\* the crew's task list, strictly earlier; so when a task starts, every task
\* of its context has already finished.
C11_ContextRunsEarlier ==
    pc = "kickoff" =>
        /\ \A t \in 1..Len(run.crew.tasks) :
              \A c \in 1..Len(run.crew.tasks[t].context) :
                  \E u \in 1..(t - 1) :
                      run.crew.tasks[u].stage = run.crew.tasks[t].context[c]
        /\ \A k \in Starts :
              \A t \in 1..Len(run.crew.tasks) :
                  run.crew.tasks[t].stage = events[k].stage =>
                      \A c \in 1..Len(run.crew.tasks[t].context) :
                          \E j \in Finishes :
                              /\ j < k
                              /\ events[j].stage = run.crew.tasks[t].context[c]

C11_Witness ==
    /\ pc = "kickoff"
    /\ session.skip_deep
    /\ run.active = 4
    /\ \E t \in 1..Len(run.crew.tasks) :
          run.crew.tasks[t].stage = 4 /\ run.crew.tasks[t].context = <<1, 3>>

-----------------------------------------------------------------------------
(* Properties of the scraping tools *)

\* C5: every tool call ends in a returned string, whatever the requests did:
\* no call ends in an exception.
C5_ToolsAlwaysReturn ==
    call.tool # "none" => call.outcome.kind = "return"

\* C6: within one call no URL or resource is requested twice, so a request
\* that failed is never issued again.
C6_NoRetry ==
    \A i \in 1..Len(call.requests), j \in 1..Len(call.requests) :
        i # j => call.requests[i].url # call.requests[j].url

C6_Witness ==
    /\ call.tool = "search_gard_rare_disease"
    /\ Len(call.requests) = 2
    /\ call.requests[1].failed
    /\ call.requests[2].failed

C9_OrphanetReportsPage ==
    (/\ call.tool = "search_orphanet_rare_disease"
     /\ call.outcome.kind = "return"
     /\ call.outcome.value[1] = "Orphanet Data for ")
    => /\ call.world.page.prevalence # Absent =>
              call.outcome.value[5] = call.world.page.prevalence
       /\ call.world.page.inheritance # Absent =>
              call.outcome.value[8] = call.world.page.inheritance

-----------------------------------------------------------------------------
(* Properties of initialize_llm, checked under SpecLLM *)

Other(provider) == IF provider = "gemini" THEN "openai" ELSE "gemini"

====
